---- MODULE Spec2Model ----
(***************************************************************************)
(* A model of server/visual-diff.py: a one-shot command line program that  *)
(* loads two documents (PDF page or raster image), pads them to a common   *)
(* size, computes a per-pixel change mask, renders an overlay and/or a     *)
(* side-by-side picture and prints one JSON object.                        *)
(*                                                                         *)
(* Text is a tuple of one-character strings, a bitmap is a record          *)
(* [width, height, px] with px a function on <<x, y>>, a numpy array is a  *)
(* record [shape, at] with shape = <<rows, columns>>.                      *)
(***************************************************************************)
EXTENDS Integers, Sequences, FiniteSets, TLC

VARIABLES
    pc,            \* position of main(): the statement that runs next
    argv,          \* the command line: raw fields and how argparse takes them
    pages1,        \* main's local pages1
    pages2,        \* main's local pages2
    img1,          \* main's local img1: <<>> while unbound, else <<bitmap>>
    img2,          \* main's local img2
    diff_result,   \* main's local diff_result: <<>> while unbound
    output_files,  \* main's local output_files (a dict: key -> info)
    exc,           \* the exception in flight: <<>> or <<message>>
    stdout,        \* the JSON objects printed to standard output
    stderr,        \* what argparse printed to standard error
    exitCode,      \* <<>> while running, <<code>> once the process has exited
    openDocs,      \* the fitz documents that are open (opened and not closed)
    disk,          \* the output files on disk: a set of [path, content]
    trace,         \* the stages called so far, in call order
    fin,           \* inputs of a function applied on its own
    fout           \* results of a function applied on its own

vars == <<pc, argv, pages1, pages2, img1, img2, diff_result, output_files, exc,
          stdout, stderr, exitCode, openDocs, disk, trace, fin, fout>>

mainVars == <<pc, argv, pages1, pages2, img1, img2, diff_result, output_files, exc,
              stdout, stderr, exitCode, openDocs, disk, trace>>

----------------------------------------------------------------------------
(* Bounds of the model *)

\* page indices 0..MaxPage are requested
MaxPage == 2
\* widths 1..MaxDiffW of the bitmaps compute_diff is applied to on its own
MaxDiffW == 2
\* width of the masks the side-by-side renderer is applied to
MaxMaskW == 5
\* height of the masks the side-by-side renderer is applied to
MaxMaskH == 4
\* at most MaxSpots pixels of such a mask are changed
MaxSpots == 2

----------------------------------------------------------------------------
(* Program constants *)

DefaultSensitivity == 30
PointsPerInch == 72
DarkBelow == 128
OverlayDarkAlpha == 180
OverlayLightAlpha == 140
BorderAlpha == 100
MaxFilterSize == 7
Gap == 20
Header == 40

----------------------------------------------------------------------------
(* Small helpers of the modelling language *)

Max(a, b) == IF a >= b THEN a ELSE b
Min(a, b) == IF a <= b THEN a ELSE b
Abs(a) == IF a >= 0 THEN a ELSE -a
Max3(t) == Max(t[1], Max(t[2], t[3]))

\* a dict after d[k] = v
Put(d, k, v) == [x \in (DOMAIN d) \cup {k} |-> IF x = k THEN v ELSE d[x]]

Coords(w, h) == (0 .. w - 1) \X (0 .. h - 1)

Solid(w, h, c) == [width |-> w, height |-> h, px |-> [p \in Coords(w, h) |-> c]]

White == <<255, 255, 255>>
Black == <<0, 0, 0>>

----------------------------------------------------------------------------
(* Text: str.replace, Path.suffix, str.lower *)

\* the text old occurs in s at position i
OccursAt(s, old, i) ==
    /\ i >= 1
    /\ i + Len(old) - 1 <= Len(s)
    /\ SubSeq(s, i, i + Len(old) - 1) = old

\* Python's s.replace(old, new) for a non-empty old: every occurrence, found
\* left to right without overlap, is replaced
RECURSIVE Replace(_, _, _)
Replace(s, old, new) ==
    IF Len(s) < Len(old) THEN s
    ELSE IF OccursAt(s, old, 1)
         THEN new \o Replace(SubSeq(s, Len(old) + 1, Len(s)), old, new)
         ELSE <<Head(s)>> \o Replace(Tail(s), old, new)

\* s.rfind(c) + 1: the last position of character c in s, 0 when there is none
RFind(s, c) ==
    LET at == {i \in 1 .. Len(s) : s[i] = c}
    IN IF at = {} THEN 0 ELSE CHOOSE i \in at : \A j \in at : j <= i

\* pathlib's Path(p).name: what follows the last "/"
PathName(p) == SubSeq(p, RFind(p, "/") + 1, Len(p))

\* pathlib's Path(p).suffix: the name from its last "." on, when that "." is
\* neither the first nor the last character of the name
PathSuffix(p) ==
    LET name == PathName(p)
        i    == RFind(name, ".")
    IN IF 1 < i /\ i < Len(name) THEN SubSeq(name, i, Len(name)) ELSE <<>>

UpperCase == <<"A", "B", "C", "D", "E", "F", "G", "H", "I", "J", "K", "L", "M",
               "N", "O", "P", "Q", "R", "S", "T", "U", "V", "W", "X", "Y", "Z">>
LowerCase == <<"a", "b", "c", "d", "e", "f", "g", "h", "i", "j", "k", "l", "m",
               "n", "o", "p", "q", "r", "s", "t", "u", "v", "w", "x", "y", "z">>

LowerChar(c) ==
    IF \E i \in 1 .. 26 : UpperCase[i] = c
    THEN LowerCase[CHOOSE i \in 1 .. 26 : UpperCase[i] = c]
    ELSE c

\* str.lower
Lower(s) == [i \in 1 .. Len(s) |-> LowerChar(s[i])]

Ext(p) == Lower(PathSuffix(p))

DotPdf == <<".", "p", "d", "f">>
DotPng == <<".", "p", "n", "g">>
SbsPng == <<"_", "s", "b", "s", ".", "p", "n", "g">>
RasterExts == { <<".", "p", "n", "g">>, <<".", "j", "p", "g">>,
                <<".", "j", "p", "e", "g">>, <<".", "t", "i", "f", "f">>,
                <<".", "t", "i", "f">>, <<".", "b", "m", "p">> }

----------------------------------------------------------------------------
(* The files the program is run on *)

\* a 2-page PDF of 1 x 2 point pages: page 0 blank, page 1 with a black top
FileA == <<"a", ".", "p", "d", "f">>
\* a 1-page PDF of 2 x 1 points, dark grey on the right; upper-case extension
FileB == <<"b", ".", "P", "D", "F">>
\* a 2 x 2 white raster image with one black pixel
FileC == <<"c", ".", "p", "n", "g">>
\* a 1 x 1 light grey raster image
FileD == <<"d", ".", "j", "p", "g">>
\* a text file
FileE == <<"e", ".", "t", "x", "t">>
\* a file named .pdf that is no PDF document
FileF == <<"f", ".", "p", "d", "f">>
\* a 1-page PDF whose page cannot be rendered
FileG == <<"g", ".", "p", "d", "f">>
\* a file named .bmp that cannot be decoded
FileH == <<"h", ".", "b", "m", "p">>

Files == {FileA, FileB, FileC, FileD, FileE, FileF, FileG, FileH}

WithPixel(img, p, c) == [img EXCEPT !.px[p] = c]

\* what is in the file: a PDF document (its pages drawn at 72 dpi, and
\* whether its pages render), a raster image, or something else
FileContent(path) ==
    CASE path = FileA -> [type |-> "pdf", renders |-> TRUE,
                          pages |-> << Solid(1, 2, White),
                                       WithPixel(Solid(1, 2, White), <<0, 0>>, Black) >>]
      [] path = FileB -> [type |-> "pdf", renders |-> TRUE,
                          pages |-> << WithPixel(Solid(2, 1, White), <<1, 0>>, <<60, 60, 60>>) >>]
      [] path = FileC -> [type |-> "raster",
                          image |-> WithPixel(Solid(2, 2, White), <<1, 1>>, Black)]
      [] path = FileD -> [type |-> "raster", image |-> Solid(1, 1, <<225, 225, 225>>)]
      [] path = FileG -> [type |-> "pdf", renders |-> FALSE,
                          pages |-> << Solid(1, 1, White) >>]
      [] OTHER -> [type |-> "other"]

DPIs == {72, 144}

----------------------------------------------------------------------------
(* Loader *)

\* a function call's outcome: it returns val, or raises err; open are the
\* documents it opened and did not close
Return(v) == [ok |-> TRUE, val |-> <<v>>, err |-> <<>>, open |-> {}]
Raise(msg, docs) == [ok |-> FALSE, val |-> <<>>, err |-> msg, open |-> docs]

\* the document object fitz.open makes
Doc(path, by) == [path |-> path, by |-> by]

\* page.get_pixmap at zoom dpi/72, then Image.frombytes: the page's picture
\* scaled by the zoom (each point becomes zoom x zoom pixels)
Rasterize(page, dpi) ==
    LET w == (page.width * dpi) \div PointsPerInch
        h == (page.height * dpi) \div PointsPerInch
    IN [width |-> w, height |-> h,
        px |-> [p \in Coords(w, h) |->
                  page.px[<<(p[1] * PointsPerInch) \div dpi,
                            (p[2] * PointsPerInch) \div dpi>>]]]

CannotOpen(path) == << "cannot open ", path >>
CannotRender(path) == << "cannot render ", path >>
PageOutOfRange(page_num, pdf_path, n) ==
    << "Page ", page_num, " does not exist in ", pdf_path, " (has ", n, " pages)" >>
UnsupportedFileType(ext) == << "Unsupported file type: ", ext >>

\* pdf_page_to_image with the range test written > instead of >=: a page
\* index equal to the page count passes the test and doc[page_num] fails
pdf_page_to_image_gt(pdf_path, page_num, dpi) ==
    LET f   == FileContent(pdf_path)
        doc == Doc(pdf_path, "pdf_page_to_image")
    IN IF f.type # "pdf" THEN Raise(CannotOpen(pdf_path), {})
       ELSE IF page_num > Len(f.pages)
            THEN Raise(PageOutOfRange(page_num, pdf_path, Len(f.pages)), {doc})
       ELSE IF page_num = Len(f.pages)
            THEN Raise(<< "page not in document" >>, {doc})
       ELSE IF ~f.renders THEN Raise(CannotRender(pdf_path), {doc})
       ELSE Return(Rasterize(f.pages[page_num + 1], dpi))

pdf_page_to_image(pdf_path, page_num, dpi) ==
    LET f   == FileContent(pdf_path)
        doc == Doc(pdf_path, "pdf_page_to_image")
    IN IF f.type # "pdf" THEN Raise(CannotOpen(pdf_path), {})
       ELSE IF page_num >= Len(f.pages)
            THEN Raise(PageOutOfRange(page_num, pdf_path, Len(f.pages)), {doc})
       ELSE IF ~f.renders THEN Raise(CannotRender(pdf_path), {doc})
       ELSE Return(Rasterize(f.pages[page_num + 1], dpi))

load_image(file_path, page_num, dpi) ==
    LET ext == Ext(file_path)
        f   == FileContent(file_path)
    IN IF ext = DotPdf THEN pdf_page_to_image(file_path, page_num, dpi)
       ELSE IF ext \in RasterExts
            THEN IF f.type = "raster" THEN Return(f.image)
                 ELSE Raise(CannotOpen(file_path), {})
       ELSE Raise(UnsupportedFileType(ext), {})

get_page_count(file_path) ==
    LET ext == Ext(file_path)
        f   == FileContent(file_path)
    IN IF ext = DotPdf
       THEN IF f.type # "pdf" THEN Raise(CannotOpen(file_path), {})
            ELSE Return(Len(f.pages))
       ELSE Return(1)

----------------------------------------------------------------------------
(* Size Normalizer *)

pad_image(img, target_w, target_h) ==
    IF img.width = target_w /\ img.height = target_h THEN img
    ELSE [width |-> target_w, height |-> target_h,
          px |-> [p \in Coords(target_w, target_h) |->
                    IF p[1] < img.width /\ p[2] < img.height THEN img.px[p]
                    ELSE White]]

\* normalize_sizes with the target height taken as the smaller height
normalize_sizes_min(a, b) ==
    LET w == Max(a.width, b.width)
        h == Min(a.height, b.height)
    IN << pad_image(a, w, h), pad_image(b, w, h) >>

normalize_sizes(a, b) ==
    LET w == Max(a.width, b.width)
        h == Max(a.height, b.height)
    IN << pad_image(a, w, h), pad_image(b, w, h) >>

----------------------------------------------------------------------------
(* Diff Computer *)

\* np.array(img): rows x columns of pixels
Array(img) == [shape |-> <<img.height, img.width>>, at |-> img.px]

\* a value stored in a numpy int16
Int16(x) == ((x + 32768) % 65536) - 32768

\* the difference taken on uint8 arrays: it wraps around modulo 256
AbsDiffUint8(p, q) == [c \in 1 .. 3 |-> (p[c] - q[c]) % 256]

\* the difference without np.abs
AbsDiffSigned(p, q) == [c \in 1 .. 3 |-> Int16(p[c] - q[c])]

\* np.abs(arr1 - arr2) on int16 arrays, for one pixel: the three channels'
\* absolute differences
AbsDiff(p, q) == [c \in 1 .. 3 |-> Int16(Abs(Int16(p[c] - q[c])))]

\* round(changed / total * 100, 2), in hundredths of a percent; ties go to
\* the even neighbour
ChangePct(changed, total) ==
    LET n == changed * 10000
        q == n \div total
        r == 2 * (n % total)
    IN IF r < total THEN q
       ELSE IF r > total THEN q + 1
       ELSE IF q % 2 = 0 THEN q ELSE q + 1

compute_diff(a, b, sensitivity) ==
    LET arr1      == Array(a)
        arr2      == Array(b)
        diff_gray == [p \in DOMAIN arr1.at |-> Max3(AbsDiff(arr1.at[p], arr2.at[p]))]
        mask      == [shape |-> arr1.shape,
                      at |-> [p \in DOMAIN diff_gray |-> diff_gray[p] > sensitivity]]
        total     == mask.shape[1] * mask.shape[2]
        changed   == Cardinality({p \in DOMAIN mask.at : mask.at[p]})
    IN [mask |-> mask,
        diff_gray |-> [shape |-> arr1.shape, at |-> diff_gray],
        total_pixels |-> total,
        changed_pixels |-> changed,
        change_percentage |-> ChangePct(changed, total)]

----------------------------------------------------------------------------
(* Renderer: overlay *)

\* (overlay * alpha_o + base * alpha_b * (1 - alpha_o)) / out_alpha for an
\* opaque base (alpha_b = 1, so out_alpha = 1), cut to an integer by astype
OverBase(ov, base) ==
    [c \in 1 .. 3 |-> (ov[c] * ov[4] + base[c] * (255 - ov[4])) \div 255]

Brightness3(p) == p[1] + p[2] + p[3]

\* the overlay layer's pixel: red on a changed pixel that is dark in
\* document B, blue on a changed pixel that is light, else transparent
OverlayPixel(changed, pB) ==
    IF changed /\ Brightness3(pB) < 3 * DarkBelow THEN <<255, 50, 50, OverlayDarkAlpha>>
    ELSE IF changed THEN <<50, 50, 255, OverlayLightAlpha>>
    ELSE <<0, 0, 0, 0>>

PngFile(path, image) == [path |-> path, content |-> [format |-> "PNG", image |-> image]]

\* what generate_overlay saves (file) and returns (info)
generate_overlay(a, b, d, output_path) ==
    LET mask == d.mask
        h    == mask.shape[1]
        w    == mask.shape[2]
        result_img ==
            [width |-> w, height |-> h,
             px |-> [p \in Coords(w, h) |->
                       OverBase(OverlayPixel(mask.at[p], b.px[p]), a.px[p])]]
    IN [file |-> PngFile(output_path, result_img),
        info |-> [width |-> w, height |-> h, output_path |-> output_path]]

----------------------------------------------------------------------------
(* Renderer: side by side *)

Clamp(v, lo, hi) == Max(lo, Min(v, hi))

\* ImageFilter.MaxFilter(size) on a w x h single-channel image: each pixel
\* becomes the maximum of the size x size window around it, the image being
\* extended past its edges by repeating its edge pixels
MaxFilter(at, w, h, size) ==
    LET r == size \div 2
    IN [p \in Coords(w, h) |->
          LET win == {at[<<Clamp(p[1] + dx, 0, w - 1), Clamp(p[2] + dy, 0, h - 1)>>] :
                         dx \in -r .. r, dy \in -r .. r}
          IN CHOOSE m \in win : \A v \in win : v <= m]

\* the border mask without "& ~mask": the whole dilated region
BorderMaskWhole(mask) ==
    LET h       == mask.shape[1]
        w       == mask.shape[2]
        region  == [p \in Coords(w, h) |-> IF mask.at[p] THEN 255 ELSE 0]
        dilated == MaxFilter(region, w, h, MaxFilterSize)
    IN [p \in Coords(w, h) |-> dilated[p] > 0]

\* border_mask = (dilated_arr > 0) & ~mask
BorderMask(mask) ==
    LET h       == mask.shape[1]
        w       == mask.shape[2]
        region  == [p \in Coords(w, h) |-> IF mask.at[p] THEN 255 ELSE 0]
        dilated == MaxFilter(region, w, h, MaxFilterSize)
    IN [p \in Coords(w, h) |-> dilated[p] > 0 /\ ~mask.at[p]]

\* Image.alpha_composite of one overlay pixel over one opaque pixel, then
\* convert("RGB"): a transparent overlay pixel leaves the pixel as it is
AlphaComposite(src, dst) ==
    IF src[4] = 0 THEN dst
    ELSE [c \in 1 .. 3 |-> (src[c] * src[4] + dst[c] * (255 - src[4]) + 127) \div 255]

HighlightPixel(border) == IF border THEN <<255, 0, 0, BorderAlpha>> ELSE <<0, 0, 0, 0>>

\* img2_result: document B with the border ring tinted, or document B
\* itself when nothing changed
HighlightB(b, mask) ==
    IF \E p \in DOMAIN mask.at : mask.at[p]
    THEN LET border == BorderMask(mask)
         IN [b EXCEPT !.px = [p \in DOMAIN b.px |->
                                AlphaComposite(HighlightPixel(border[p]), b.px[p])]]
    ELSE b

\* what generate_side_by_side saves (file) and returns (info); the canvas is
\* kept as its background, its labels and the two pasted pictures
generate_side_by_side(a, b, d, output_path) ==
    LET mask     == d.mask
        h        == mask.shape[1]
        w        == mask.shape[2]
        canvas_w == w * 2 + Gap
        canvas ==
            [width |-> canvas_w, height |-> h + Header,
             background |-> <<245, 245, 245>>,
             texts |-> << [at |-> <<10, 10>>, text |-> "ORIGINAL (Doc A)"],
                          [at |-> <<w + Gap + 10, 10>>,
                           text |-> "REVISED (Doc B) - Changes Highlighted"] >>,
             pastes |-> << [at |-> <<0, Header>>, image |-> a],
                           [at |-> <<w + Gap, Header>>, image |-> HighlightB(b, mask)] >>]
    IN [file |-> PngFile(output_path, canvas),
        info |-> [width |-> canvas_w, height |-> h + Header, output_path |-> output_path]]

----------------------------------------------------------------------------
(* main *)

Modes == {"overlay", "side-by-side", "both"}

\* the output paths the program is run with
OutputPaths ==
    { <<"d", ".", "p", "n", "g">>,
      <<"o", "u", "t">>,
      <<"d", ".", "P", "N", "G">>,
      <<"d", ".", "p", "n", "g", ".", "b", "a", "k">>,
      <<"a", ".", "p", "n", "g", "/", "b", ".", "p", "n", "g">> }

Sensitivities == {DefaultSensitivity, -1}

\* how argparse takes the command line: it accepts it, rejects it (a flag
\* value that is no integer, an unknown mode, a missing path), or shows help
ParseOutcomes == {"ok", "error", "help"}

\* the side-by-side path made by appending the suffix to any path
SbsPathAppend(output) == output \o SbsPng

\* args.output.replace(".png", "_sbs.png")
SbsPath(output) == Replace(output, DotPng, SbsPng)

\* disk after a file was saved: a file of the same path is replaced
Saved(d, file) == {f \in d : f.path # file.path} \cup {file}

CannotSave(path) == << "cannot write ", path >>

\* print(json.dumps(obj))
PrintJson(out, obj) == Append(out, [kind |-> "json", obj |-> obj])

\* the two renderer branches in the other order: side-by-side first
AfterDiffSbsFirst(mode) == IF mode \in {"side-by-side", "both"} THEN "side_by_side"
                           ELSE "overlay"

\* the statement after compute_diff, and the one after the overlay
AfterDiff(mode) == IF mode \in {"overlay", "both"} THEN "overlay"
                   ELSE IF mode \in {"side-by-side", "both"} THEN "side_by_side"
                   ELSE "report"
AfterOverlay(mode) == IF mode \in {"side-by-side", "both"} THEN "side_by_side"
                      ELSE "report"

Init ==
    /\ pc = "parse_args"
    /\ argv \in [file1 : Files, file2 : Files, output : OutputPaths, dpi : DPIs,
                 sensitivity : Sensitivities, page : 0 .. MaxPage, mode : Modes,
                 parse : ParseOutcomes]
    /\ pages1 = <<>>
    /\ pages2 = <<>>
    /\ img1 = <<>>
    /\ img2 = <<>>
    /\ diff_result = <<>>
    /\ output_files = <<>>
    /\ exc = <<>>
    /\ stdout = <<>>
    /\ stderr = <<>>
    /\ exitCode = <<>>
    /\ openDocs = {}
    /\ disk = {}
    /\ trace = <<>>
    /\ fin = <<>>
    /\ fout = <<>>

\* parser.parse_args(), outside the try block: a rejected command line
\* prints usage to standard error and exits with code 2, -h prints the help
\* text and exits with code 0
ParseArgs ==
    /\ pc = "parse_args"
    /\ CASE argv.parse = "ok" ->
              /\ pc' = "page_count1"
              /\ UNCHANGED <<stdout, stderr, exitCode>>
         [] argv.parse = "error" ->
              /\ pc' = "exit"
              /\ stderr' = Append(stderr, "usage: error")
              /\ exitCode' = <<2>>
              /\ UNCHANGED stdout
         [] argv.parse = "help" ->
              /\ pc' = "exit"
              /\ stdout' = Append(stdout, [kind |-> "text", obj |-> "usage: help"])
              /\ exitCode' = <<0>>
              /\ UNCHANGED stderr
    /\ UNCHANGED <<argv, pages1, pages2, img1, img2, diff_result, output_files, exc,
                   openDocs, disk, trace, fin, fout>>

\* pages1 = get_page_count(args.file1)
PageCount1 ==
    /\ pc = "page_count1"
    /\ LET r == get_page_count(argv.file1)
       IN /\ openDocs' = openDocs \cup r.open
          /\ IF r.ok THEN pages1' = r.val /\ pc' = "page_count2" /\ UNCHANGED exc
                     ELSE exc' = <<r.err>> /\ pc' = "except" /\ UNCHANGED pages1
    /\ trace' = Append(trace, "page_count1")
    /\ UNCHANGED <<argv, pages2, img1, img2, diff_result, output_files, stdout, stderr,
                   exitCode, disk, fin, fout>>

\* pages2 = get_page_count(args.file2)
PageCount2 ==
    /\ pc = "page_count2"
    /\ LET r == get_page_count(argv.file2)
       IN /\ openDocs' = openDocs \cup r.open
          /\ IF r.ok THEN pages2' = r.val /\ pc' = "load1" /\ UNCHANGED exc
                     ELSE exc' = <<r.err>> /\ pc' = "except" /\ UNCHANGED pages2
    /\ trace' = Append(trace, "page_count2")
    /\ UNCHANGED <<argv, pages1, img1, img2, diff_result, output_files, stdout, stderr,
                   exitCode, disk, fin, fout>>

\* img1 = load_image(args.file1, args.page, args.dpi)
Load1 ==
    /\ pc = "load1"
    /\ LET r == load_image(argv.file1, argv.page, argv.dpi)
       IN /\ openDocs' = openDocs \cup r.open
          /\ IF r.ok THEN img1' = r.val /\ pc' = "load2" /\ UNCHANGED exc
                     ELSE exc' = <<r.err>> /\ pc' = "except" /\ UNCHANGED img1
    /\ trace' = Append(trace, "load1")
    /\ UNCHANGED <<argv, pages1, pages2, img2, diff_result, output_files, stdout, stderr,
                   exitCode, disk, fin, fout>>

\* img2 = load_image(args.file2, args.page, args.dpi)
Load2 ==
    /\ pc = "load2"
    /\ LET r == load_image(argv.file2, argv.page, argv.dpi)
       IN /\ openDocs' = openDocs \cup r.open
          /\ IF r.ok THEN img2' = r.val /\ pc' = "normalize" /\ UNCHANGED exc
                     ELSE exc' = <<r.err>> /\ pc' = "except" /\ UNCHANGED img2
    /\ trace' = Append(trace, "load2")
    /\ UNCHANGED <<argv, pages1, pages2, img1, diff_result, output_files, stdout, stderr,
                   exitCode, disk, fin, fout>>

\* img1, img2 = normalize_sizes(img1, img2)
Normalize ==
    /\ pc = "normalize"
    /\ LET n == normalize_sizes(img1[1], img2[1])
       IN img1' = <<n[1]>> /\ img2' = <<n[2]>>
    /\ pc' = "compute_diff"
    /\ trace' = Append(trace, "normalize")
    /\ UNCHANGED <<argv, pages1, pages2, diff_result, output_files, exc, stdout, stderr,
                   exitCode, openDocs, disk, fin, fout>>

\* diff_result = compute_diff(img1, img2, args.sensitivity); output_files = {}
ComputeDiff ==
    /\ pc = "compute_diff"
    /\ diff_result' = <<compute_diff(img1[1], img2[1], argv.sensitivity)>>
    /\ output_files' = <<>>
    /\ pc' = AfterDiff(argv.mode)
    /\ trace' = Append(trace, "compute_diff")
    /\ UNCHANGED <<argv, pages1, pages2, img1, img2, exc, stdout, stderr, exitCode,
                   openDocs, disk, fin, fout>>

\* the overlay branch: generate_overlay saves the picture (the save succeeds
\* or raises, as the file system decides) and its info is recorded
RenderOverlay ==
    /\ pc = "overlay"
    /\ LET overlay_path == argv.output
           g == generate_overlay(img1[1], img2[1], diff_result[1], overlay_path)
       IN \E saved \in BOOLEAN :
            IF saved
            THEN /\ disk' = Saved(disk, g.file)
                 /\ output_files' = Put(output_files, "overlay", g.info)
                 /\ pc' = AfterOverlay(argv.mode)
                 /\ UNCHANGED exc
            ELSE /\ exc' = <<CannotSave(overlay_path)>>
                 /\ pc' = "except"
                 /\ UNCHANGED <<disk, output_files>>
    /\ trace' = Append(trace, "overlay")
    /\ UNCHANGED <<argv, pages1, pages2, img1, img2, diff_result, stdout, stderr,
                   exitCode, openDocs, fin, fout>>

\* the side-by-side branch
RenderSideBySide ==
    /\ pc = "side_by_side"
    /\ LET sbs_path == SbsPath(argv.output)
           g == generate_side_by_side(img1[1], img2[1], diff_result[1], sbs_path)
       IN \E saved \in BOOLEAN :
            IF saved
            THEN /\ disk' = Saved(disk, g.file)
                 /\ output_files' = Put(output_files, "side_by_side", g.info)
                 /\ pc' = "report"
                 /\ UNCHANGED exc
            ELSE /\ exc' = <<CannotSave(sbs_path)>>
                 /\ pc' = "except"
                 /\ UNCHANGED <<disk, output_files>>
    /\ trace' = Append(trace, "side_by_side")
    /\ UNCHANGED <<argv, pages1, pages2, img1, img2, diff_result, stdout, stderr,
                   exitCode, openDocs, fin, fout>>

\* result = {...}; print(json.dumps(result)); sys.exit(0)
Report ==
    /\ pc = "report"
    /\ stdout' = PrintJson(stdout,
                   [success |-> TRUE,
                    pages_doc1 |-> pages1[1],
                    pages_doc2 |-> pages2[1],
                    compared_page |-> argv.page,
                    total_pixels |-> diff_result[1].total_pixels,
                    changed_pixels |-> diff_result[1].changed_pixels,
                    change_percentage |-> diff_result[1].change_percentage,
                    sensitivity |-> argv.sensitivity,
                    dpi |-> argv.dpi,
                    output_files |-> output_files])
    /\ exitCode' = <<0>>
    /\ pc' = "exit"
    /\ trace' = Append(trace, "report")
    /\ UNCHANGED <<argv, pages1, pages2, img1, img2, diff_result, output_files, exc,
                   stderr, openDocs, disk, fin, fout>>

\* except Exception as e: print the failure object; sys.exit(1)
Except ==
    /\ pc = "except"
    /\ stdout' = PrintJson(stdout, [success |-> FALSE, error |-> exc[1]])
    /\ exitCode' = <<1>>
    /\ pc' = "exit"
    /\ UNCHANGED <<argv, pages1, pages2, img1, img2, diff_result, output_files, exc,
                   stderr, openDocs, disk, trace, fin, fout>>

Next ==
    \/ ParseArgs
    \/ PageCount1
    \/ PageCount2
    \/ Load1
    \/ Load2
    \/ Normalize
    \/ ComputeDiff
    \/ RenderOverlay
    \/ RenderSideBySide
    \/ Report
    \/ Except

Spec == Init /\ [][Next]_vars

----------------------------------------------------------------------------
(* Functions applied on their own *)

\* main is not running
MainIdle ==
    /\ pc = "idle"
    /\ argv = <<>>
    /\ pages1 = <<>>
    /\ pages2 = <<>>
    /\ img1 = <<>>
    /\ img2 = <<>>
    /\ diff_result = <<>>
    /\ output_files = <<>>
    /\ exc = <<>>
    /\ stdout = <<>>
    /\ stderr = <<>>
    /\ exitCode = <<>>
    /\ openDocs = {}
    /\ disk = {}
    /\ trace = <<>>

\* all bitmaps of a size with pixels of the given colours
Bitmaps(w, h, colours) ==
    {[width |-> w, height |-> h, px |-> f] : f \in [Coords(w, h) -> colours]}

\* colours whose channel differences are 0, 30, 31, 225, 255 and more
DiffColours == {Black, <<30, 0, 0>>, <<0, 31, 0>>, <<0, 30, 255>>, White}

DiffSensitivities == {-1, 0, DefaultSensitivity, 254, 255}

\* compute_diff applied to two bitmaps of one size, in both orders
InitDiff ==
    /\ MainIdle
    /\ \E w \in 1 .. MaxDiffW :
         fin \in [a : Bitmaps(w, 1, DiffColours), b : Bitmaps(w, 1, DiffColours),
                  s : DiffSensitivities]
    /\ fout = [ab |-> <<>>, ba |-> <<>>]

DiffAB ==
    /\ fout.ab = <<>>
    /\ fout' = [fout EXCEPT !.ab = <<compute_diff(fin.a, fin.b, fin.s)>>]
    /\ UNCHANGED <<mainVars, fin>>

DiffBA ==
    /\ fout.ba = <<>>
    /\ fout' = [fout EXCEPT !.ba = <<compute_diff(fin.b, fin.a, fin.s)>>]
    /\ UNCHANGED <<mainVars, fin>>

NextDiff == DiffAB \/ DiffBA

SpecDiff == InitDiff /\ [][NextDiff]_vars

\* the subsets of S of at most n elements
RECURSIVE AtMost(_, _)
AtMost(S, n) ==
    IF n = 0 THEN {{}}
    ELSE LET smaller == AtMost(S, n - 1)
         IN smaller \cup {T \cup {x} : T \in smaller, x \in S}

\* bitmaps of one colour but for at most n pixels of another
Spotted(w, h, ground, spot, n) ==
    {[width |-> w, height |-> h,
      px |-> [p \in Coords(w, h) |-> IF p \in S THEN spot ELSE ground]] :
        S \in AtMost(Coords(w, h), n)}

SbsOut == <<"d", "_", "s", "b", "s", ".", "p", "n", "g">>

\* compute_diff and then generate_side_by_side applied to a plain document A
\* and a document B that differs from it in at most MaxSpots pixels
InitSbs ==
    /\ MainIdle
    /\ \E ground \in {White, Black} :
         LET spot == IF ground = White THEN Black ELSE White
         IN \E b \in Spotted(MaxMaskW, MaxMaskH, ground, spot, MaxSpots) :
              fin = [a |-> Solid(MaxMaskW, MaxMaskH, ground), b |-> b,
                     s |-> DefaultSensitivity]
    /\ fout = [diff |-> <<>>, sbs |-> <<>>]

SbsDiff ==
    /\ fout.diff = <<>>
    /\ fout' = [fout EXCEPT !.diff = <<compute_diff(fin.a, fin.b, fin.s)>>]
    /\ UNCHANGED <<mainVars, fin>>

SbsRender ==
    /\ fout.diff # <<>>
    /\ fout.sbs = <<>>
    /\ fout' = [fout EXCEPT !.sbs =
                  <<generate_side_by_side(fin.a, fin.b, fout.diff[1], SbsOut)>>]
    /\ UNCHANGED <<mainVars, fin>>

NextSbs == SbsDiff \/ SbsRender

SpecSbs == InitSbs /\ [][NextSbs]_vars

----------------------------------------------------------------------------
(* Properties *)

Called(stage) == \E i \in 1 .. Len(trace) : trace[i] = stage

Position(stage) == CHOOSE i \in 1 .. Len(trace) : trace[i] = stage

IsPrefix(t, u) == Len(t) <= Len(u) /\ SubSeq(u, 1, Len(t)) = t

EndsWith(t, suffix) ==
    Len(t) >= Len(suffix) /\ SubSeq(t, Len(t) - Len(suffix) + 1, Len(t)) = suffix

\* the positions at which sub occurs in t
Occurrences(t, sub) ==
    {i \in 1 .. Len(t) - Len(sub) + 1 : SubSeq(t, i, i + Len(sub) - 1) = sub}

Exited == pc = "exit"

PrintedOneSuccess ==
    /\ Len(stdout) = 1
    /\ stdout[1].kind = "json"
    /\ stdout[1].obj.success
    /\ exitCode = <<0>>

PrintedOneFailure ==
    /\ Len(stdout) = 1
    /\ stdout[1].kind = "json"
    /\ ~stdout[1].obj.success
    /\ DOMAIN stdout[1].obj = {"success", "error"}
    /\ exitCode = <<1>>

FilesAt(path) == {f \in disk : f.path = path}

\* the document the d-th path argument names
PathOf(d) == IF d = 1 THEN argv.file1 ELSE argv.file2
ImgOf(d) == IF d = 1 THEN img1 ELSE img2
LoadStage(d) == IF d = 1 THEN "load1" ELSE "load2"

\* C1: every run that has ended has ended with exit code 0 and exactly one
\* success object on standard output, or with exit code 1 and exactly one
\* failure object on standard output, whatever stage failed (flag parsing
\* included).
C1_OneOutcome == Exited => (PrintedOneSuccess \/ PrintedOneFailure)

\* C2: once a Loader call (page_count or load) has ended, on whatever path,
\* no PDF document handle is open, in that state and in every later stage.
C2_NoOpenHandle == trace # <<>> => openDocs = {}

\* the primary path with only a trailing ".png" replaced by "_sbs.png"
TrailingReplaced(output) ==
    IF EndsWith(output, DotPng)
    THEN SubSeq(output, 1, Len(output) - Len(DotPng)) \o SbsPng
    ELSE output

\* C3: the path the side-by-side picture is written to is the primary path
\* with only a trailing ".png" replaced by "_sbs.png" (other occurrences are
\* left alone), and the primary path itself when it does not end in ".png".
C3_TrailingPngOnly ==
    "side_by_side" \in DOMAIN output_files =>
        output_files["side_by_side"].output_path = TrailingReplaced(argv.output)

\* C4: when load is called for a PDF whose page count is at most the
\* requested page index, for either document, the call fails and the run
\* ends with the failure object whose message names the requested index and
\* the document's page count; no bitmap is produced for that document, no
\* renderer runs and no file is written. A raster image loads whatever the
\* page index is.
C4_PageOutOfRange ==
    \A d \in {1, 2} :
        Called(LoadStage(d)) =>
            LET path == PathOf(d)
                f    == FileContent(path)
            IN /\ (Ext(path) = DotPdf /\ f.type = "pdf" /\ argv.page >= Len(f.pages)) =>
                    /\ pc \in {"except", "exit"}
                    /\ Len(exc) = 1
                    /\ Len(exc[1]) = 7
                    /\ exc[1][1] = "Page "
                    /\ exc[1][2] = argv.page
                    /\ exc[1][4] = path
                    /\ exc[1][6] = Len(f.pages)
                    /\ ImgOf(d) = <<>>
                    /\ ~Called("overlay")
                    /\ ~Called("side_by_side")
                    /\ disk = {}
                    /\ Exited => (PrintedOneFailure /\ stdout[1].obj.error = exc[1])
               /\ (Ext(path) \in RasterExts /\ f.type = "raster") =>
                    /\ ImgOf(d) # <<>>
                    /\ ~(pc = "except" /\ trace[Len(trace)] = LoadStage(d))

C4_Witness ==
    /\ Exited
    /\ Called("load2")
    /\ Ext(argv.file2) = DotPdf
    /\ FileContent(argv.file2).type = "pdf"
    /\ argv.page >= Len(FileContent(argv.file2).pages)
    /\ img1 # <<>>
    /\ Ext(argv.file1) \in RasterExts
    /\ argv.page >= 1

\* the sizes of the two bitmaps the Loader returned
LoadedW(d) == load_image(PathOf(d), argv.page, argv.dpi).val[1].width
LoadedH(d) == load_image(PathOf(d), argv.page, argv.dpi).val[1].height

\* C5: once the Normalizer has run, both bitmaps have width max(w1, w2) and
\* height max(h1, h2); the mask compute_diff returns has that width and
\* height, total_pixels is their product, and the renderers report sizes
\* made of that width and height.
C5_CommonSize ==
    Called("normalize") =>
        LET w == IF LoadedW(1) >= LoadedW(2) THEN LoadedW(1) ELSE LoadedW(2)
            h == IF LoadedH(1) >= LoadedH(2) THEN LoadedH(1) ELSE LoadedH(2)
        IN /\ img1[1].width = w /\ img1[1].height = h
           /\ img2[1].width = w /\ img2[1].height = h
           /\ DOMAIN img1[1].px = Coords(w, h)
           /\ DOMAIN img2[1].px = Coords(w, h)
           /\ Called("compute_diff") =>
                /\ diff_result[1].mask.shape = <<h, w>>
                /\ DOMAIN diff_result[1].mask.at = Coords(w, h)
                /\ diff_result[1].total_pixels = w * h
           /\ "overlay" \in DOMAIN output_files =>
                /\ output_files["overlay"].width = w
                /\ output_files["overlay"].height = h
           /\ "side_by_side" \in DOMAIN output_files =>
                /\ output_files["side_by_side"].width = 2 * w + 20
                /\ output_files["side_by_side"].height = h + 40

C5_Witness ==
    /\ Exited
    /\ PrintedOneSuccess
    /\ argv.mode = "both"
    /\ LoadedW(1) < LoadedW(2)
    /\ LoadedH(1) > LoadedH(2)
    /\ diff_result[1].total_pixels = LoadedW(2) * LoadedH(1)

\* some channel of the two pixels differs by more than s
Exceeds(p, q, s) ==
    \E c \in 1 .. 3 : (p[c] - q[c] > s) \/ (q[c] - p[c] > s)

\* the largest channel difference of the two pixels is exactly v
DiffIs(p, q, v) ==
    /\ \E c \in 1 .. 3 : (p[c] - q[c] = v) \/ (q[c] - p[c] = v)
    /\ ~Exceeds(p, q, v)

\* the mask is true exactly where some channel differs by more than s, and
\* changed_pixels counts the true mask pixels
MaskIsThreshold(r, a, b, s) ==
    /\ \A p \in DOMAIN a.px : r.mask.at[p] <=> Exceeds(a.px[p], b.px[p], s)
    /\ DOMAIN r.mask.at = DOMAIN a.px
    /\ r.changed_pixels = Cardinality({p \in DOMAIN a.px : r.mask.at[p]})

\* the pixels in which the two bitmaps differ at all
Differing(a, b) == {p \in DOMAIN a.px : a.px[p] # b.px[p]}

\* identical bitmaps give 0 changed pixels; bitmaps differing in exactly one
\* pixel, by more than s in some channel, give 1
InParticular(r, a, b, s) ==
    /\ a = b => r.changed_pixels = 0
    /\ (/\ Cardinality(Differing(a, b)) = 1
        /\ \A p \in Differing(a, b) : Exceeds(a.px[p], b.px[p], s))
         => r.changed_pixels = 1

StageOrder(mode) ==
    << "page_count1", "page_count2", "load1", "load2", "normalize", "compute_diff" >>
    \o (IF mode \in {"overlay", "both"} THEN << "overlay" >> ELSE << >>)
    \o (IF mode \in {"side-by-side", "both"} THEN << "side_by_side" >> ELSE << >>)
    \o << "report" >>

RenderedKeys(mode) ==
    (IF mode \in {"overlay", "both"} THEN {"overlay"} ELSE {})
    \cup (IF mode \in {"side-by-side", "both"} THEN {"side_by_side"} ELSE {})

\* C7: the stages are called in the fixed order; the success object is
\* printed only when every file it lists is on disk, and it lists overlay
\* exactly when the overlay was rendered and side_by_side exactly when the
\* side-by-side was rendered; a file written before a later stage failed is
\* still on disk when the run reports failure.
C7_StageOrder ==
    /\ IsPrefix(trace, StageOrder(argv.mode))
    /\ (stdout # <<>> /\ stdout[1].kind = "json" /\ stdout[1].obj.success) =>
          LET listed == stdout[1].obj.output_files
          IN /\ trace = StageOrder(argv.mode)
             /\ DOMAIN listed = RenderedKeys(argv.mode)
             /\ \A k \in DOMAIN listed : FilesAt(listed[k].output_path) # {}
             /\ ("overlay" \in DOMAIN listed) <=> Called("overlay")
             /\ ("side_by_side" \in DOMAIN listed) <=> Called("side_by_side")
    /\ (Exited /\ exitCode = <<1>> /\ "overlay" \in DOMAIN output_files) =>
          /\ FilesAt(output_files["overlay"].output_path) # {}
          /\ PrintedOneFailure

C7_Witness ==
    /\ Exited
    /\ exitCode = <<1>>
    /\ argv.mode = "both"
    /\ trace[Len(trace)] = "side_by_side"
    /\ "overlay" \in DOMAIN output_files
    /\ FilesAt(argv.output) # {}
    /\ PrintedOneFailure

\* C8: compute_diff(A, B, s) and compute_diff(B, A, s) return the same mask,
\* the same changed_pixels and the same change_percentage.
C8_Symmetric ==
    (fout.ab # <<>> /\ fout.ba # <<>>) =>
        /\ fout.ab[1].mask = fout.ba[1].mask
        /\ fout.ab[1].changed_pixels = fout.ba[1].changed_pixels
        /\ fout.ab[1].change_percentage = fout.ba[1].change_percentage

C8_Witness ==
    /\ fout.ab # <<>>
    /\ fout.ba # <<>>
    /\ fin.a # fin.b
    /\ fout.ab[1].changed_pixels = 1
    /\ fout.ab[1].total_pixels = 2
    /\ fout.ba[1].change_percentage = 5000

\* pixel p is unchanged and some changed pixel lies within Chebyshev
\* distance 3 of it (inside the picture)
InRing(mask, p) ==
    /\ ~mask.at[p]
    /\ \E q \in DOMAIN mask.at :
         /\ mask.at[q]
         /\ q[1] - p[1] \in -3 .. 3
         /\ q[2] - p[2] \in -3 .. 3

\* red (255, 0, 0) at alpha 100/255 over an opaque colour
TintedRed(c) ==
    << (255 * 100 + c[1] * 155 + 127) \div 255,
       (c[2] * 155 + 127) \div 255,
       (c[3] * 155 + 127) \div 255 >>

\* C9: in the right-hand panel of the side-by-side picture a pixel of
\* document B is tinted red exactly when it is unchanged and a changed pixel
\* lies in its 7x7 neighbourhood; every other pixel keeps B's colour, and
\* with no changed pixel the panel is B.
C9_BorderRing ==
    fout.sbs # <<>> =>
        LET mask  == fout.diff[1].mask
            panel == fout.sbs[1].file.content.image.pastes[2].image
        IN /\ panel.width = fin.b.width /\ panel.height = fin.b.height
           /\ \A p \in DOMAIN fin.b.px :
                /\ InRing(mask, p) => panel.px[p] = TintedRed(fin.b.px[p])
                /\ ~InRing(mask, p) => panel.px[p] = fin.b.px[p]
                /\ (panel.px[p] # fin.b.px[p]) <=> InRing(mask, p)
           /\ fout.diff[1].changed_pixels = 0 => panel = fin.b

C9_Witness ==
    /\ fout.sbs # <<>>
    /\ fout.diff[1].changed_pixels = 2
    /\ LET mask  == fout.diff[1].mask
           panel == fout.sbs[1].file.content.image.pastes[2].image
       IN /\ mask.at[<<0, 0>>]
          /\ panel.px[<<0, 0>>] = fin.b.px[<<0, 0>>]
          /\ panel.px[<<3, 3>>] # fin.b.px[<<3, 3>>]
          /\ ~mask.at[<<4, 0>>]
          /\ panel.px[<<4, 0>>] = fin.b.px[<<4, 0>>]

\* C10: in mode both, when the primary path holds no ".png" the two
\* renderers write the same path, overlay first, so after a successful run
\* the one file there is the side-by-side picture (2w+20 by h+40) while the
\* success object lists overlay (still w by h) and side_by_side with the same
\* output_path; when the primary path ends in ".png" and holds no other
\* ".png" the two reported paths differ.
C10_SamePath ==
    (Exited /\ PrintedOneSuccess /\ argv.mode = "both") =>
        LET listed == stdout[1].obj.output_files
            h == diff_result[1].mask.shape[1]
            w == diff_result[1].mask.shape[2]
        IN /\ Occurrences(argv.output, DotPng) = {} =>
                /\ listed["overlay"].output_path = argv.output
                /\ listed["side_by_side"].output_path = argv.output
                /\ Position("overlay") < Position("side_by_side")
                /\ Cardinality(disk) = 1
                /\ \A f \in disk :
                     /\ f.path = argv.output
                     /\ f.content.image.width = 2 * w + 20
                     /\ f.content.image.height = h + 40
                     /\ "pastes" \in DOMAIN f.content.image
                /\ listed["overlay"].width = w
                /\ listed["overlay"].height = h
           /\ (EndsWith(argv.output, DotPng)
               /\ Cardinality(Occurrences(argv.output, DotPng)) = 1) =>
                /\ listed["overlay"].output_path # listed["side_by_side"].output_path
                /\ Cardinality(disk) = 2

C10_Witness ==
    /\ Exited
    /\ PrintedOneSuccess
    /\ argv.mode = "both"
    /\ Occurrences(argv.output, DotPng) = {}
    /\ Cardinality(disk) = 1
    /\ stdout[1].obj.output_files["overlay"].output_path
         = stdout[1].obj.output_files["side_by_side"].output_path

====
